---- MODULE Spec2Model ----
(***************************************************************************)
(* HR Policy Generator (src/app.py): the four-step wizard kept in          *)
(* st.session_state, the step-3 research run of main() (search, per-URL    *)
(* extraction, aggregation, synthesis, cleanup) and the methods of         *)
(* HRPolicyGenerator.  Text is modelled as a sequence of characters, a     *)
(* dict as a function whose DOMAIN is the set of keys it has.              *)
(***************************************************************************)
EXTENDS Integers, Sequences, FiniteSets, TLC

VARIABLES
    env,                     \* os.environ: TAVILY_API_KEY, GEMINI_API_KEY
    session_state,           \* st.session_state: step, policy_type, location, generated_policy
    pc,                      \* position of the step-3 script: idle, search, loop, after_loop, finally
    generator,               \* the HRPolicyGenerator of the current script run
    browser,                 \* browser sessions: created and quit in this run, open now
    search_results,          \* main: search_results
    idx,                     \* main: 1-based position of the extraction loop in search_results[:5]
    all_extracted_data,      \* main: all_extracted_data
    successful_extractions,  \* main: successful_extractions
    outcome,                 \* how the last run left the try block
    calls,                   \* log of the method and driver calls of the current run
    unit                     \* the last direct call of extract_content_selenium (ExtractSpec)

vars == <<env, session_state, pc, generator, browser, search_results, idx,
          all_extracted_data, successful_extractions, outcome, calls, unit>>

----------------------------------------------------------------------------
(* Bounds of the model *)

MaxResults == 6     \* longest result list the search service returns in the model
MaxPageLen == 4     \* longest page text given to a direct extraction call
MaxChars == 3       \* largest max_chars given to a direct extraction call
MaxApiCalls == 2    \* direct method calls between two script runs (ApiSpec)
MaxMatching == 2    \* selectors of a page whose lookup finds elements or raises (SelectSpec)

(* Program constants *)

TopN == 5                   \* search_results[:5]
DEFAULT_MAX_CHARS == 5000   \* extract_content_selenium(url, max_chars=5000)

----------------------------------------------------------------------------
(* Python helpers *)

Get(d, k, default) == IF k \in DOMAIN d THEN d[k] ELSE default

\* truth value of a str
Truthy(s) == s # ""

\* truth value of a list, or of a text kept as a sequence of characters
NonEmpty(s) == Len(s) > 0

Min(a, b) == IF a < b THEN a ELSE b

Max(a, b) == IF a > b THEN a ELSE b

\* s[:n]
SliceTo(s, n) ==
    IF n >= 0 THEN SubSeq(s, 1, Min(n, Len(s)))
    ELSE SubSeq(s, 1, Max(0, Len(s) + n))

Whitespace == {" ", "\n", "\t"}

Chars == {"a"} \cup Whitespace

RECURSIVE SkipWs(_)
SkipWs(s) ==
    IF s # <<>> /\ Head(s) \in Whitespace THEN SkipWs(Tail(s)) ELSE s

\* re.sub(r'\s+', ' ', s)
RECURSIVE CollapseWs(_)
CollapseWs(s) ==
    IF s = <<>> THEN <<>>
    ELSE IF Head(s) \in Whitespace THEN <<" ">> \o CollapseWs(SkipWs(s))
    ELSE <<Head(s)>> \o CollapseWs(Tail(s))

RECURSIVE RStrip(_)
RStrip(s) ==
    IF s # <<>> /\ s[Len(s)] \in Whitespace THEN RStrip(SubSeq(s, 1, Len(s) - 1)) ELSE s

\* str.strip()
Strip(s) == RStrip(SkipWs(s))

\* mutant: the text is cleaned but never cut to max_chars
CleanAndLimit_Unlimited(content, max_chars) == Strip(CollapseWs(content))

\* lines 322-324: clean and limit content
CleanAndLimit(content, max_chars) ==
    LET c == Strip(CollapseWs(content))
    IN  IF Len(c) > max_chars THEN SliceTo(c, max_chars) ELSE c

----------------------------------------------------------------------------
(* The environment's answers *)

EnvValues == {"", "key"}

BadUrl == "http://[bad"

UrlOf(k) == "https://gov.example/" \o ToString(k)

TitleOf(k) == "Title " \o ToString(k)

\* one search result of rank k: a dict with or without a url, or with one urlparse rejects
ResultKinds == {"full", "nourl", "badurl"}

Result(kind, k) ==
    CASE kind = "full"    -> [title |-> TitleOf(k), url |-> UrlOf(k)]
      [] kind = "nourl"   -> [title |-> TitleOf(k)]
      [] kind = "badurl"  -> [title |-> TitleOf(k), url |-> BadUrl]

ResultLists ==
    UNION {{[k \in 1..n |-> Result(kinds[k], k)] : kinds \in [1..n -> ResultKinds]} : n \in 0..MaxResults}

\* what requests.post / raise_for_status / response.json() produce
SearchResponses ==
    {[kind |-> k, body |-> <<>>] : k \in {"transport_error", "timeout", "http_error", "invalid_json", "not_object"}}
    \cup {[kind |-> "object", body |-> [answer |-> "a"]]}
    \cup {[kind |-> "object", body |-> [results |-> rs]] : rs \in ResultLists}

\* urlparse(url) raises ValueError on a malformed netloc
UrlparseRaises(url) == url = BadUrl

SetupOutcomes == {"ok", "no_driver", "driver_then_error"}

\* lines 304-307
ContentSelectors ==
    <<"main", "article", ".content", ".main-content",
      "#content", "#main", ".policy-content", ".legal-content">>

\* what find_elements and get_attribute('textContent') give for one selector:
\* the texts of the elements found, or an exception inside the try of line 311
NoMatch == [raises |-> FALSE, elements |-> <<>>]

\* a rendered page: the lookup of every selector, and the text of body
BodyOnly(text) == [matches |-> [k \in DOMAIN ContentSelectors |-> NoMatch], body |-> text]

MainPages ==
    {BodyOnly(<<" ", "\n">>),
     [BodyOnly(<<"a">>) EXCEPT !.matches[1] =
        [raises |-> FALSE, elements |-> << <<" ", "a", "\t", " ", "a">> >>]]}

ExtractEvents == [setup : SetupOutcomes, nav : {"ok", "error"}, page : MainPages]

GeminiEvents == {"error", "empty", "text"}

GeneratedText == "POLICY"

----------------------------------------------------------------------------
(* HRPolicyGenerator *)

NoDriver == "None"

TheDriver == "driver"

\* __init__
HRPolicyGenerator(e) ==
    [tavily_api_key |-> e.TAVILY_API_KEY,
     gemini_api_key |-> e.GEMINI_API_KEY,
     driver |-> NoDriver]

\* setup_selenium: the driver it leaves in self.driver and its return value
setup_selenium(g, o) ==
    CASE o = "ok"                -> [driver |-> TheDriver, created |-> TRUE, ret |-> TRUE]
      [] o = "driver_then_error" -> [driver |-> TheDriver, created |-> TRUE, ret |-> FALSE]
      [] o = "no_driver"         -> [driver |-> g.driver, created |-> FALSE, ret |-> FALSE]

search_tavily(g, query, location, resp) ==
    IF ~Truthy(g.tavily_api_key)
    THEN [fn |-> "search_tavily", sent |-> FALSE, reply |-> "none", raised |-> FALSE,
          ret |-> <<>>, diag |-> "Tavily API key not provided"]
    ELSE IF resp.kind \in {"transport_error", "timeout", "http_error", "invalid_json"}
    THEN [fn |-> "search_tavily", sent |-> TRUE, reply |-> resp.kind, raised |-> FALSE,
          ret |-> <<>>, diag |-> "Tavily search failed"]
    ELSE IF resp.kind = "not_object"
    THEN [fn |-> "search_tavily", sent |-> TRUE, reply |-> resp.kind, raised |-> TRUE,
          ret |-> <<>>, diag |-> ""]
    ELSE [fn |-> "search_tavily", sent |-> TRUE,
          reply |-> IF "results" \in DOMAIN resp.body THEN "results" ELSE "no_results_field",
          raised |-> FALSE, ret |-> Get(resp.body, "results", <<>>), diag |-> ""]

\* mutant: an element with empty text is passed over for the next selector
RECURSIVE select_content_FirstNonEmpty(_)
select_content_FirstNonEmpty(page) ==
    LET ks == {k \in DOMAIN page.matches :
                 /\ ~page.matches[k].raises
                 /\ page.matches[k].elements # <<>>
                 /\ page.matches[k].elements[1] # <<>>}
    IN  IF ks = {} THEN page.body
        ELSE page.matches[CHOOSE k \in ks : \A j \in ks : k <= j].elements[1]

\* lines 309-317: the loop over content_selectors from selector k on
RECURSIVE first_match(_, _)
first_match(page, k) ==
    IF k > Len(ContentSelectors) THEN <<>>
    ELSE IF page.matches[k].raises THEN first_match(page, k + 1)
    ELSE IF page.matches[k].elements # <<>> THEN page.matches[k].elements[1]
    ELSE first_match(page, k + 1)

\* lines 309-320: extract main content
select_content(page) ==
    LET content == first_match(page, 1)
    IN  IF ~NonEmpty(content) THEN page.body ELSE content

\* mutant: a navigation error is not caught and leaves the method as an exception
extract_content_selenium_Uncaught(g, url, max_chars, ev) ==
    LET s == IF g.driver = NoDriver THEN setup_selenium(g, ev.setup)
             ELSE [driver |-> g.driver, created |-> FALSE, ret |-> TRUE]
    IN  [fn |-> "extract_content_selenium", url |-> url, driver |-> s.driver,
         created |-> s.created, navigated |-> s.ret, raised |-> s.ret /\ ev.nav = "error",
         ret |-> IF s.ret /\ ev.nav = "ok" THEN CleanAndLimit(select_content(ev.page), max_chars) ELSE <<>>,
         diag |-> ""]

\* mutant: every call sets up a new driver, whether or not one exists
extract_content_selenium_AlwaysSetup(g, url, max_chars, ev) ==
    LET s == setup_selenium(g, ev.setup)
    IN  [fn |-> "extract_content_selenium", url |-> url, driver |-> s.driver,
         created |-> s.created, navigated |-> s.ret, raised |-> FALSE,
         ret |-> IF s.ret /\ ev.nav = "ok" THEN CleanAndLimit(select_content(ev.page), max_chars) ELSE <<>>,
         diag |-> ""]

extract_content_selenium(g, url, max_chars, ev) ==
    LET s == IF g.driver = NoDriver THEN setup_selenium(g, ev.setup)
             ELSE [driver |-> g.driver, created |-> FALSE, ret |-> TRUE]
    IN  IF ~s.ret
        THEN [fn |-> "extract_content_selenium", url |-> url, driver |-> s.driver,
              created |-> s.created, navigated |-> FALSE, raised |-> FALSE, ret |-> <<>>,
              diag |-> "Failed to setup Selenium WebDriver"]
        ELSE IF ev.nav = "error"
        THEN [fn |-> "extract_content_selenium", url |-> url, driver |-> s.driver,
              created |-> s.created, navigated |-> TRUE, raised |-> FALSE, ret |-> <<>>,
              diag |-> "Could not extract content"]
        ELSE [fn |-> "extract_content_selenium", url |-> url, driver |-> s.driver,
              created |-> s.created, navigated |-> TRUE, raised |-> FALSE,
              ret |-> CleanAndLimit(select_content(ev.page), max_chars), diag |-> ""]

\* mutant: the request is sent whether or not there is a key
generate_policy_with_gemini_NoKeyCheck(g, policy_type, location, extracted_data, gev) ==
    [fn |-> "generate_policy_with_gemini", sent |-> TRUE, data |-> extracted_data,
     ret |-> IF gev = "text" THEN GeneratedText ELSE "",
     diag |-> IF gev = "error" THEN "Failed to generate policy with Gemini" ELSE ""]

generate_policy_with_gemini(g, policy_type, location, extracted_data, gev) ==
    IF ~Truthy(g.gemini_api_key)
    THEN [fn |-> "generate_policy_with_gemini", sent |-> FALSE, data |-> extracted_data,
          ret |-> "", diag |-> "Gemini API key not provided"]
    ELSE IF gev = "error"
    THEN [fn |-> "generate_policy_with_gemini", sent |-> TRUE, data |-> extracted_data,
          ret |-> "", diag |-> "Failed to generate policy with Gemini"]
    ELSE [fn |-> "generate_policy_with_gemini", sent |-> TRUE, data |-> extracted_data,
          ret |-> IF gev = "text" THEN GeneratedText ELSE "", diag |-> ""]

\* mutant: cleanup forgets the driver
cleanup_Skipped(g) == <<>>

\* cleanup: the driver.quit() calls it makes
cleanup(g) == IF g.driver # NoDriver THEN <<[fn |-> "quit"]>> ELSE <<>>

\* the browser after the calls of cleanup
Released(b, quits) ==
    [b EXCEPT !.quits = @ + Len(quits),
              !.open = IF Len(quits) > 0 /\ @ > 0 THEN @ - 1 ELSE @]

\* the browser after a call of extract_content_selenium
Acquired(b, r) ==
    IF r.created THEN [b EXCEPT !.created = @ + 1, !.open = @ + 1] ELSE b

----------------------------------------------------------------------------
(* Session state and the wizard *)

InitialSession ==
    [step |-> 1, policy_type |-> "", location |-> "", generated_policy |-> ""]

NoGenerator == [tavily_api_key |-> "", gemini_api_key |-> "", driver |-> NoDriver]

NoBrowser == [created |-> 0, quits |-> 0, open |-> 0]

NoUnit == [page |-> BodyOnly(<<>>), max_chars |-> 0, nav |-> "ok", ret |-> <<>>, called |-> FALSE]

\* a script rerun starts with no generator, no locals and no messages
FreshLocals(g, o) ==
    /\ generator' = g
    /\ browser' = [browser EXCEPT !.created = 0, !.quits = 0]
    /\ search_results' = <<>>
    /\ idx' = 0
    /\ all_extracted_data' = <<>>
    /\ successful_extractions' = 0
    /\ outcome' = o
    /\ calls' = <<>>

Init ==
    /\ env \in [TAVILY_API_KEY : EnvValues, GEMINI_API_KEY : EnvValues]
    /\ session_state = InitialSession
    /\ pc = "idle"
    /\ generator = NoGenerator
    /\ browser = NoBrowser
    /\ search_results = <<>>
    /\ idx = 0
    /\ all_extracted_data = <<>>
    /\ successful_extractions = 0
    /\ outcome = "none"
    /\ calls = <<>>
    /\ unit = NoUnit

SelectedPolicies == {"Remote Work Policy"}

CustomPolicies == {"", "Custom Policy"}

PopularCountries == {"United States"}

FederalCountries == {"United States", "Canada", "Australia", "India"}

CustomLocations == {""}

StateProvinces == {"", "California"}

\* lines 478-484
ContinueToLocation ==
    /\ pc = "idle"
    /\ session_state.step = 1
    /\ \E selected_policy \in SelectedPolicies, custom_policy \in CustomPolicies :
         LET final_policy == IF Truthy(custom_policy) THEN custom_policy ELSE selected_policy
         IN  IF Truthy(final_policy)
             THEN session_state' = [session_state EXCEPT !.policy_type = final_policy, !.step = 2]
             ELSE session_state' = session_state
    /\ FreshLocals(NoGenerator, "none")
    /\ UNCHANGED <<env, pc, unit>>

\* lines 517-519
BackToPolicy ==
    /\ pc = "idle"
    /\ session_state.step = 2
    /\ session_state' = [session_state EXCEPT !.step = 1]
    /\ FreshLocals(NoGenerator, "none")
    /\ UNCHANGED <<env, pc, unit>>

\* mutant: the location is stored without the check of line 523
StartResearchAndGeneration_Unchecked ==
    /\ pc = "idle"
    /\ session_state.step = 2
    /\ \E chosen \in PopularCountries \cup CustomLocations, state_province \in StateProvinces :
         LET location == IF chosen \in FederalCountries /\ Truthy(state_province)
                         THEN state_province \o ", " \o chosen
                         ELSE chosen
         IN  session_state' = [session_state EXCEPT !.location = location, !.step = 3]
    /\ FreshLocals(NoGenerator, "none")
    /\ UNCHANGED <<env, pc, unit>>

\* lines 499-510 and 522-528
StartResearchAndGeneration ==
    /\ pc = "idle"
    /\ session_state.step = 2
    /\ \E chosen \in PopularCountries \cup CustomLocations, state_province \in StateProvinces :
         LET location == IF chosen \in FederalCountries /\ Truthy(state_province)
                         THEN state_province \o ", " \o chosen
                         ELSE chosen
         IN  IF Truthy(location)
             THEN session_state' = [session_state EXCEPT !.location = location, !.step = 3]
             ELSE session_state' = session_state
    /\ FreshLocals(NoGenerator, "none")
    /\ UNCHANGED <<env, pc, unit>>

\* line 536
KeysMissing == ~Truthy(env.TAVILY_API_KEY) \/ ~Truthy(env.GEMINI_API_KEY)

\* lines 613-615; the button is not rendered after the return of line 538
BackToLocation ==
    /\ pc = "idle"
    /\ session_state.step = 3
    /\ ~KeysMissing
    /\ session_state' = [session_state EXCEPT !.step = 2]
    /\ FreshLocals(NoGenerator, "none")
    /\ UNCHANGED <<env, pc, unit>>

\* lines 665-670 and 382-390
GenerateNewPolicy ==
    /\ pc = "idle"
    /\ session_state.step = 4
    /\ session_state' = InitialSession
    /\ FreshLocals(NoGenerator, "none")
    /\ UNCHANGED <<env, pc, unit>>

\* lines 673-675
ModifyCurrentPolicy ==
    /\ pc = "idle"
    /\ session_state.step = 4
    /\ session_state' = [session_state EXCEPT !.step = 3]
    /\ FreshLocals(NoGenerator, "none")
    /\ UNCHANGED <<env, pc, unit>>

----------------------------------------------------------------------------
(* The step-3 research run *)

\* lines 531-544: the click reruns the script, which builds a new generator
StartResearchProcess ==
    /\ pc = "idle"
    /\ session_state.step = 3
    /\ ~KeysMissing
    /\ FreshLocals(HRPolicyGenerator(env), "running")
    /\ pc' = "search"
    /\ UNCHANGED <<env, session_state, unit>>

\* mutant: an empty result list is not noticed
NoSources_Never(results) == FALSE

\* line 548: not search_results
NoSources(results) == ~NonEmpty(results)

\* lines 545-552: Discovery
Search ==
    /\ pc = "search"
    /\ \E resp \in SearchResponses :
         LET r == search_tavily(generator, session_state.policy_type, session_state.location, resp)
         IN  /\ calls' = Append(calls, r)
             /\ IF r.raised
                THEN /\ outcome' = "exception"
                     /\ pc' = "finally"
                     /\ UNCHANGED <<search_results, idx>>
                ELSE IF NoSources(r.ret)
                THEN /\ outcome' = "no_sources"
                     /\ pc' = "finally"
                     /\ UNCHANGED <<search_results, idx>>
                ELSE /\ search_results' = r.ret
                     /\ idx' = 1
                     /\ pc' = "loop"
                     /\ UNCHANGED outcome
    /\ UNCHANGED <<env, session_state, generator, browser, all_extracted_data,
                   successful_extractions, unit>>

\* mutant: the loop runs over every result
TopResults_All == search_results

\* search_results[:5]
TopResults == SliceTo(search_results, TopN)

\* line 576
Block(result, url, content) ==
    <<"\n\n--- SOURCE: ", Get(result, "title", "Unknown"), " (", url, ") ---\n", content>>

\* mutant: the new block is put in front
Aggregate_Prepend(data, result, url, content) == Block(result, url, content) \o data

\* line 576: all_extracted_data += block
Aggregate(data, result, url, content) == data \o Block(result, url, content)

\* mutant: a result is taken to have a url whatever it holds
HasUrl_Always(result) == TRUE

\* lines 570-571: url = result.get('url', ''); if url:
HasUrl(result) == Truthy(Get(result, "url", ""))

\* lines 569-580: one iteration of the extraction loop
ExtractNext ==
    /\ pc = "loop"
    /\ idx <= Len(TopResults)
    /\ LET result == TopResults[idx]
           url == Get(result, "url", "")
       IN  IF ~HasUrl(result)
           THEN /\ idx' = idx + 1
                /\ UNCHANGED <<pc, generator, browser, all_extracted_data,
                               successful_extractions, outcome, calls>>
           ELSE IF UrlparseRaises(url)
           THEN /\ outcome' = "exception"
                /\ pc' = "finally"
                /\ UNCHANGED <<generator, browser, idx, all_extracted_data,
                               successful_extractions, calls>>
           ELSE \E ev \in ExtractEvents :
                  LET r == extract_content_selenium(generator, url, DEFAULT_MAX_CHARS, ev)
                  IN  /\ calls' = Append(calls, [fn |-> r.fn, url |-> r.url, ret |-> r.ret,
                                                 raised |-> r.raised])
                      /\ generator' = [generator EXCEPT !.driver = r.driver]
                      /\ browser' = Acquired(browser, r)
                      /\ IF r.raised
                         THEN /\ outcome' = "exception"
                              /\ pc' = "finally"
                              /\ UNCHANGED <<idx, all_extracted_data, successful_extractions>>
                         ELSE /\ IF NonEmpty(r.ret)
                                 THEN /\ all_extracted_data' =
                                            Aggregate(all_extracted_data, result, url, r.ret)
                                      /\ successful_extractions' = successful_extractions + 1
                                 ELSE UNCHANGED <<all_extracted_data, successful_extractions>>
                              /\ idx' = idx + 1
                              /\ UNCHANGED <<pc, outcome>>
    /\ UNCHANGED <<env, session_state, search_results, unit>>

\* lines 582-583: the loop of line 569 is exhausted
ExitLoop ==
    /\ pc = "loop"
    /\ idx > Len(TopResults)
    /\ pc' = "after_loop"
    /\ UNCHANGED <<env, session_state, generator, browser, search_results, idx,
                   all_extracted_data, successful_extractions, outcome, calls, unit>>

\* mutant: the run halts as soon as one of the top results gave nothing
NoContent_AnyFailure(count) == count < TopN

\* mutant: the zero count is not noticed
NoContent_Never(count) == count < 0

\* line 585
NoContent(count) == count = 0

\* lines 585-587
HaltNoExtractions ==
    /\ pc = "after_loop"
    /\ NoContent(successful_extractions)
    /\ outcome' = "no_extractions"
    /\ pc' = "finally"
    /\ UNCHANGED <<env, session_state, generator, browser, search_results, idx,
                   all_extracted_data, successful_extractions, calls, unit>>

\* mutant: a failed generation discards the policy of an earlier run
StorePolicy_DropsEarlier(ss, generated_policy) ==
    IF Truthy(generated_policy)
    THEN [ss EXCEPT !.generated_policy = generated_policy, !.step = 4]
    ELSE [ss EXCEPT !.generated_policy = ""]

\* mutant: the wizard advances whatever the generation returned
StorePolicy_Always(ss, generated_policy) ==
    [ss EXCEPT !.generated_policy = generated_policy, !.step = 4]

\* lines 599-606: what the run leaves in st.session_state
StorePolicy(ss, generated_policy) ==
    IF Truthy(generated_policy)
    THEN [ss EXCEPT !.generated_policy = generated_policy, !.step = 4]
    ELSE ss

\* lines 589-606: Synthesis; st.rerun() leaves the try block through finally
Synthesize ==
    /\ pc = "after_loop"
    /\ ~NoContent(successful_extractions)
    /\ \E gev \in GeminiEvents :
         LET r == generate_policy_with_gemini(generator, session_state.policy_type,
                                              session_state.location, all_extracted_data, gev)
         IN  /\ calls' = Append(calls, r)
             /\ session_state' = StorePolicy(session_state, r.ret)
             /\ outcome' = IF Truthy(r.ret) THEN "success" ELSE "synthesis_failed"
    /\ pc' = "finally"
    /\ UNCHANGED <<env, generator, browser, search_results, idx, all_extracted_data,
                   successful_extractions, unit>>

\* lines 610-611: the run ends, its locals are gone
Finally ==
    /\ pc = "finally"
    /\ LET quits == cleanup(generator)
       IN  /\ calls' = calls \o quits
           /\ browser' = Released(browser, quits)
    /\ pc' = "idle"
    /\ search_results' = <<>>
    /\ idx' = 0
    /\ all_extracted_data' = <<>>
    /\ successful_extractions' = 0
    /\ UNCHANGED <<env, session_state, generator, outcome, unit>>

Next ==
    \/ ContinueToLocation
    \/ BackToPolicy
    \/ StartResearchAndGeneration
    \/ BackToLocation
    \/ GenerateNewPolicy
    \/ ModifyCurrentPolicy
    \/ StartResearchProcess
    \/ Search
    \/ ExtractNext
    \/ ExitLoop
    \/ HaltNoExtractions
    \/ Synthesize
    \/ Finally

Spec == Init /\ [][Next]_vars

----------------------------------------------------------------------------
(* extract_content_selenium called directly: any page text, any max_chars, with *)
(* or without a session left by an earlier call                                 *)

PageTexts == UNION {[1..n -> Chars] : n \in 0..MaxPageLen}

\* the state before a direct call, its page and max_chars drawn from the given sets
UnitInit(pages, limits) ==
    /\ env = [TAVILY_API_KEY |-> "key", GEMINI_API_KEY |-> "key"]
    /\ session_state = InitialSession
    /\ pc = "unit"
    /\ \E d \in {NoDriver, TheDriver} :
         /\ generator = [HRPolicyGenerator(env) EXCEPT !.driver = d]
         /\ browser = IF d = NoDriver THEN NoBrowser
                      ELSE [created |-> 1, quits |-> 0, open |-> 1]
    /\ search_results = <<>>
    /\ idx = 0
    /\ all_extracted_data = <<>>
    /\ successful_extractions = 0
    /\ outcome = "none"
    /\ calls = <<>>
    /\ \E page \in pages, max_chars \in limits :
         unit = [NoUnit EXCEPT !.page = page, !.max_chars = max_chars]

ExtractInit == UnitInit({BodyOnly(text) : text \in PageTexts}, 0..MaxChars)

\* lines 284-328, one call
ExtractCall ==
    /\ pc = "unit"
    /\ \E setup \in SetupOutcomes, nav \in {"ok", "error"} :
         LET r == extract_content_selenium(generator, UrlOf(1), unit.max_chars,
                                           [setup |-> setup, nav |-> nav, page |-> unit.page])
         IN  /\ unit' = [unit EXCEPT !.ret = r.ret, !.called = TRUE,
                                     !.nav = IF r.navigated THEN nav ELSE "none"]
             /\ generator' = [generator EXCEPT !.driver = r.driver]
             /\ browser' = Acquired(browser, r)
             /\ calls' = Append(calls, [fn |-> r.fn, url |-> r.url, ret |-> r.ret,
                                        raised |-> r.raised])
    /\ pc' = "unit_done"
    /\ UNCHANGED <<env, session_state, search_results, idx, all_extracted_data,
                   successful_extractions, outcome>>

ExtractSpec == ExtractInit /\ [][ExtractCall]_vars

----------------------------------------------------------------------------
(* extract_content_selenium called directly on pages with content regions *)

\* the text of the first element selector k finds
ElementText(k) == <<ContentSelectors[k], " ", "\n", "1">>

\* what the lookup of selector k can give when it does not simply find nothing
LookupKinds == {"raises", "one", "two", "empty_first"}

Lookup(k, kind) ==
    [raises |-> kind = "raises",
     elements |-> IF kind = "two" THEN <<ElementText(k), <<"other">> >>
                  ELSE IF kind = "empty_first" THEN << <<>>, ElementText(k)>>
                  ELSE <<ElementText(k)>>]

SelectPages ==
    {[matches |-> [k \in DOMAIN ContentSelectors |->
                     IF k \in DOMAIN f THEN Lookup(k, f[k]) ELSE NoMatch],
      body |-> body] :
        f \in UNION {[ks -> LookupKinds] :
                       ks \in {ks \in SUBSET DOMAIN ContentSelectors :
                                 Cardinality(ks) <= MaxMatching}},
        body \in {<<>>, <<"body", "\t", "text">>}}

SelectInit == UnitInit(SelectPages, {DEFAULT_MAX_CHARS})

SelectSpec == SelectInit /\ [][ExtractCall]_vars

----------------------------------------------------------------------------
(* The application together with a client that builds an HRPolicyGenerator and *)
(* calls search_tavily and generate_policy_with_gemini itself, under any        *)
(* environment                                                                  *)

\* lines 119-129, outside a research run
ApiConstruct ==
    /\ pc = "idle"
    /\ outcome = "none"
    /\ FreshLocals(HRPolicyGenerator(env), "none")
    /\ pc' = "api"
    /\ UNCHANGED <<env, session_state, unit>>

ApiResponses ==
    {r \in SearchResponses : r.kind = "object" => Len(Get(r.body, "results", <<>>)) <= 1}

\* lines 256-282, one call
ApiSearch ==
    /\ pc = "api"
    /\ Len(calls) < MaxApiCalls
    /\ \E resp \in ApiResponses :
         calls' = Append(calls, search_tavily(generator, session_state.policy_type,
                                              session_state.location, resp))
    /\ UNCHANGED <<env, session_state, pc, generator, browser, search_results, idx,
                   all_extracted_data, successful_extractions, outcome, unit>>

\* lines 330-372, one call
ApiGenerate ==
    /\ pc = "api"
    /\ Len(calls) < MaxApiCalls
    /\ \E gev \in GeminiEvents :
         calls' = Append(calls, generate_policy_with_gemini(generator,
                                    session_state.policy_type, session_state.location,
                                    <<>>, gev))
    /\ UNCHANGED <<env, session_state, pc, generator, browser, search_results, idx,
                   all_extracted_data, successful_extractions, outcome, unit>>

ApiNext == Next \/ ApiConstruct \/ ApiSearch \/ ApiGenerate

ApiSpec == Init /\ [][ApiNext]_vars

----------------------------------------------------------------------------
(* Properties of the research run, checked under Spec *)

CallsOf(fn) == {k \in DOMAIN calls : calls[k].fn = fn}

SearchCalls == CallsOf("search_tavily")

ExtractCalls == CallsOf("extract_content_selenium")

GenerateCalls == CallsOf("generate_policy_with_gemini")

QuitCalls == CallsOf("quit")

SuccessfulCalls == {k \in ExtractCalls : NonEmpty(calls[k].ret)}

RunEnded == pc = "idle" /\ outcome # "none"

LoopCompleted == outcome \in {"no_extractions", "synthesis_failed", "success"}

\* the URLs the extraction calls of the log were given, in call order
RECURSIVE AttemptedUrls(_)
AttemptedUrls(log) ==
    IF log = <<>> THEN <<>>
    ELSE IF Head(log).fn = "extract_content_selenium"
         THEN <<Head(log).url>> \o AttemptedUrls(Tail(log))
         ELSE AttemptedUrls(Tail(log))

\* the non-empty urls of a result list, in rank order
RECURSIVE UrlsOf(_)
UrlsOf(rs) ==
    IF rs = <<>> THEN <<>>
    ELSE IF Get(Head(rs), "url", "") # ""
         THEN <<Get(Head(rs), "url", "")>> \o UrlsOf(Tail(rs))
         ELSE UrlsOf(Tail(rs))

\* the text the extraction call for url returned; empty when there was no such call
ContentOf(url) ==
    LET ks == {k \in ExtractCalls : calls[k].url = url}
    IN  IF ks = {} THEN <<>> ELSE calls[CHOOSE k \in ks : TRUE].ret

\* the provenance blocks of an aggregated text, read back from it
RECURSIVE Blocks(_)
Blocks(data) ==
    IF Len(data) < 6 THEN <<>>
    ELSE <<[marker |-> data[1], title |-> data[2], url |-> data[4], text |-> data[6]]>>
         \o Blocks(SubSeq(data, 7, Len(data)))

\* the blocks the results with a non-empty extraction call for, in rank order
RECURSIVE ExpectedBlocks(_)
ExpectedBlocks(rs) ==
    IF rs = <<>> THEN <<>>
    ELSE LET url == Get(Head(rs), "url", "")
             text == IF url = "" THEN <<>> ELSE ContentOf(url)
         IN  (IF text = <<>> THEN <<>>
              ELSE <<[marker |-> "\n\n--- SOURCE: ", title |-> Head(rs).title,
                      url |-> url, text |-> text]>>)
             \o ExpectedBlocks(Tail(rs))

\* C1: once a run has ended, by success, halt or exception, no browser session is
\* open; driver.quit() was called exactly once if the run created a session and
\* not at all if it created none.
C1_SessionRelease ==
    RunEnded =>
        /\ browser.open = 0
        /\ browser.created > 0 => Cardinality(QuitCalls) = 1 /\ browser.quits = 1
        /\ browser.created = 0 => Cardinality(QuitCalls) = 0 /\ browser.quits = 0

C1_Witness ==
    /\ RunEnded
    /\ outcome = "exception"
    /\ browser.created = 1
    /\ browser.quits = 1

\* C2: a run whose extractions all returned the empty string halts with a success
\* count of zero, and generate_policy_with_gemini is called only in a run with a
\* non-empty extraction.
C2_NoSynthesisWithoutContent ==
    /\ pc \in {"loop", "after_loop"} => successful_extractions = Cardinality(SuccessfulCalls)
    /\ GenerateCalls # {} => SuccessfulCalls # {}
    /\ LoopCompleted /\ SuccessfulCalls = {} => outcome = "no_extractions" /\ GenerateCalls = {}

C2_Witness ==
    /\ RunEnded
    /\ outcome = "no_extractions"
    /\ Cardinality(ExtractCalls) = TopN
    /\ GenerateCalls = {}

\* C3: when search_tavily returns an empty list the run halts there: no extraction
\* call, no browser session, no generation call.
C3_NoSourcesHalts ==
    \A k \in SearchCalls :
        ~calls[k].raised /\ calls[k].ret = <<>> =>
            /\ outcome = "no_sources"
            /\ pc \in {"finally", "idle"}
            /\ ExtractCalls = {}
            /\ GenerateCalls = {}
            /\ browser.created = 0

C3_Witness ==
    /\ RunEnded
    /\ outcome = "no_sources"
    /\ \E k \in SearchCalls : calls[k].sent /\ calls[k].reply = "results"

\* C4: after the extraction loop the aggregated text is one provenance block per
\* result with a non-empty extraction, in rank order, none for the others, and
\* successful_extractions is the number of blocks.
C4_AggregationInOrder ==
    pc = "after_loop" =>
        /\ Len(all_extracted_data) = 6 * Len(Blocks(all_extracted_data))
        /\ Blocks(all_extracted_data) = ExpectedBlocks(TopResults)
        /\ successful_extractions = Len(Blocks(all_extracted_data))

C4_Witness ==
    /\ pc = "after_loop"
    /\ Len(search_results) > TopN
    /\ Cardinality(ExtractCalls) = 4
    /\ successful_extractions = 2
    /\ ~NonEmpty(calls[2].ret)

C9_EmptySynthesisDoesNotAdvance ==
    \A k \in GenerateCalls :
        calls[k].ret = "" => session_state.step = 3 /\ outcome = "synthesis_failed"

C9_Witness ==
    /\ RunEnded
    /\ outcome = "synthesis_failed"
    /\ session_state.step = 3
    /\ \E k \in GenerateCalls : calls[k].sent /\ calls[k].ret = ""

\* C10: in a run the search is called exactly once and first, at most five urls
\* are extracted and each at most once, all of them before the generation call,
\* which is made at most once.
C10_LinearStages ==
    pc # "search" /\ outcome # "none" =>
        /\ SearchCalls = {1}
        /\ calls[1].sent
        /\ Cardinality(ExtractCalls) <= TopN
        /\ \A j, k \in ExtractCalls : calls[j].url = calls[k].url => j = k
        /\ Cardinality(GenerateCalls) <= 1
        /\ \A e \in ExtractCalls : \A g \in GenerateCalls : e < g
        /\ \A g \in GenerateCalls : calls[g].sent

C10_Witness ==
    /\ RunEnded
    /\ outcome = "success"
    /\ Cardinality(ExtractCalls) = TopN
    /\ Cardinality(GenerateCalls) = 1
    /\ Len(calls) = 8

----------------------------------------------------------------------------
(* Properties of extract_content_selenium, checked under ExtractSpec *)

NoDoubleWhitespace(text) ==
    \A k \in 1..(Len(text) - 1) : ~(text[k] \in Whitespace /\ text[k + 1] \in Whitespace)

----------------------------------------------------------------------------
(* Properties of the boundaries of search_tavily and generate_policy_with_gemini *)

SearchFailed(c) ==
    c.reply \in {"transport_error", "timeout", "http_error", "invalid_json",
                 "not_object", "no_results_field"}

\* C6: search_tavily never raises: every failure of the search call, a body that
\* is no object with a results field included, gives a diagnostic and an empty list.
C6_SearchNeverRaises ==
    \A k \in SearchCalls :
        /\ ~calls[k].raised
        /\ SearchFailed(calls[k]) => calls[k].diag # "" /\ calls[k].ret = <<>>

\* C8: without a credential the service is not called: generate_policy_with_gemini
\* reports the missing key and returns the empty string without a request,
\* search_tavily returns an empty list without a request, and no research run is
\* under way while a key is absent.  Checked under ApiSpec.
C8_NoCallWithoutCredential ==
    /\ \A k \in GenerateCalls :
           ~Truthy(env.GEMINI_API_KEY) =>
               /\ ~calls[k].sent
               /\ calls[k].ret = ""
               /\ calls[k].diag = "Gemini API key not provided"
    /\ \A k \in SearchCalls :
           ~Truthy(env.TAVILY_API_KEY) =>
               /\ ~calls[k].sent
               /\ ~calls[k].raised
               /\ calls[k].ret = <<>>
    /\ KeysMissing => pc \in {"idle", "api"} /\ outcome = "none"

C8_Witness ==
    /\ session_state.step = 3
    /\ env.GEMINI_API_KEY = ""
    /\ env.TAVILY_API_KEY = ""
    /\ pc = "api"
    /\ \E k \in GenerateCalls : ~calls[k].sent
    /\ \E k \in SearchCalls : ~calls[k].sent

----------------------------------------------------------------------------
(* Further properties of the research run, checked under Spec *)

\* C11: the browser session is created lazily and reused: none exists before the
\* first extraction call, a run creates at most one, and once the generator holds
\* a driver the later extractions create no other.
C11_LazySingleSession ==
    /\ browser.created <= 1
    /\ browser.open <= 1
    /\ ExtractCalls = {} => browser.created = 0 /\ generator.driver = NoDriver
    /\ generator.driver # NoDriver <=> browser.created = 1

C11_Witness ==
    /\ pc = "loop"
    /\ Cardinality(ExtractCalls) = 4
    /\ generator.driver = TheDriver
    /\ browser.created = 1
    /\ browser.open = 1
----------------------------------------------------------------------------
(* Choice of the content region, checked under SelectSpec *)

\* the selectors that find at least one element on the page
Matching(page) == {k \in DOMAIN ContentSelectors : page.matches[k].elements # <<>>}

\* the selectors that find at least one element and whose text is read without an error
Readable(page) == {k \in Matching(page) : ~page.matches[k].raises}

First(ks) == CHOOSE k \in ks : \A j \in ks : k <= j

\* the call returned from a page it navigated to
Extracted == unit.called /\ unit.nav = "ok"

----------------------------------------------------------------------------
(* Partial failure, the wizard's state and url-less results, checked under Spec *)

\* the url and text of every extraction call that returned text, in call order
RECURSIVE SuccessfulLog(_)
SuccessfulLog(log) ==
    IF log = <<>> THEN <<>>
    ELSE IF Head(log).fn = "extract_content_selenium" /\ NonEmpty(Head(log).ret)
         THEN <<[url |-> Head(log).url, text |-> Head(log).ret]>> \o SuccessfulLog(Tail(log))
         ELSE SuccessfulLog(Tail(log))

\* the url and text of every provenance block of an aggregated text
SourcesOf(data) ==
    [k \in DOMAIN Blocks(data) |-> [url |-> Blocks(data)[k].url, text |-> Blocks(data)[k].text]]

\* C13: in a run whose loop completed with at least one non-empty extraction,
\* generate_policy_with_gemini is called exactly once, and the text it is given
\* holds one block for each successful extraction and no other, however many of
\* the extractions failed.
C13_PartialFailureStillSynthesizes ==
    LoopCompleted /\ SuccessfulCalls # {} =>
        /\ Cardinality(GenerateCalls) = 1
        /\ \A g \in GenerateCalls :
              /\ Len(calls[g].data) = 6 * Len(SuccessfulLog(calls))
              /\ SourcesOf(calls[g].data) = SuccessfulLog(calls)

C13_Witness ==
    /\ RunEnded
    /\ Cardinality(ExtractCalls) = TopN
    /\ Cardinality(SuccessfulCalls) = 3
    /\ Cardinality(ExtractCalls \ SuccessfulCalls) = 2
    /\ Cardinality(GenerateCalls) = 1
    /\ outcome = "success"
\* what every wizard step has stored by the time it is shown
WizardStateOk ==
    /\ session_state.step \in 1..4
    /\ session_state.step >= 2 => session_state.policy_type # ""
    /\ session_state.step >= 3 => session_state.location # ""
    /\ session_state.step = 4 => session_state.generated_policy # ""

\* a step that brings the wizard to step 4 is the synthesis of a run started at
\* step 3, and it stores the non-empty text the generation call returned
EntersStep4FromRun ==
    session_state.step # 4 /\ session_state'.step = 4 =>
        /\ session_state.step = 3
        /\ pc = "after_loop"
        /\ Len(calls') = Len(calls) + 1
        /\ calls'[Len(calls')].fn = "generate_policy_with_gemini"
        /\ Truthy(calls'[Len(calls')].ret)
        /\ session_state'.generated_policy = calls'[Len(calls')].ret

\* C14: over every sequence of button presses and runs, step is one of 1..4;
\* from step 2 on policy_type is non-empty, from step 3 on location is
\* non-empty, at step 4 generated_policy is non-empty; and step 4 is entered
\* only from step 3, by a run whose synthesis returned non-empty text.
C14_WizardInvariant == []WizardStateOk /\ [][EntersStep4FromRun]_vars

\* the results step, reached by a successful run for a custom policy
C14_Witness ==
    /\ pc = "idle"
    /\ session_state.step = 4
    /\ session_state.location = "California, United States"
    /\ session_state.policy_type = "Custom Policy"
    /\ session_state.generated_policy = GeneratedText
    /\ outcome = "success"
\* a step of a run: its start, or any step before it is back at the buttons
RunStep == pc # "idle" \/ pc' # "idle"

\* a step of a run that has not succeeded leaves step, policy_type, location and
\* generated_policy as they were
UnsuccessfulRunKeepsSession ==
    RunStep /\ outcome' # "success" => session_state' = session_state

\* C15: a run that does not succeed (no sources, no extractions, empty
\* synthesis or a caught exception) leaves step, policy_type, location and
\* generated_policy as they were before it, a policy generated by an earlier
\* run included.
C15_FailedRunKeepsSession == [][UnsuccessfulRunKeepsSession]_vars

\* a run started after coming back from step 4 failed at the synthesis, and the
\* earlier policy is still stored
C15_Witness ==
    /\ RunEnded
    /\ outcome = "synthesis_failed"
    /\ session_state.step = 3
    /\ session_state.generated_policy = GeneratedText
\* the loop is at a result whose url is missing or empty
AtUrlless == pc = "loop" /\ idx <= Len(TopResults) /\ Get(TopResults[idx], "url", "") = ""

\* the iteration for such a result changes nothing but the position in the list
UrllessSkipped ==
    AtUrlless =>
        /\ idx' = idx + 1
        /\ pc' = "loop"
        /\ UNCHANGED <<calls, browser, generator, all_extracted_data, successful_extractions>>

\* the search of this run returned results of which none of the top five has a url
AllUrlless ==
    \E k \in SearchCalls :
        /\ ~calls[k].raised
        /\ calls[k].ret # <<>>
        /\ UrlsOf(SliceTo(calls[k].ret, TopN)) = <<>>

\* such a run makes no call and creates no session, and it ends at the halt for
\* zero extractions
UrllessRunHalts ==
    /\ \A k \in ExtractCalls : calls[k].url # ""
    /\ AllUrlless =>
          /\ ExtractCalls = {}
          /\ GenerateCalls = {}
          /\ browser.created = 0
          /\ successful_extractions = 0
          /\ all_extracted_data = <<>>
          /\ outcome \in {"running", "no_extractions"}
          /\ pc \in {"finally", "idle"} => outcome = "no_extractions"

\* C16: a top-five result whose url is missing or empty is skipped entirely: no
\* extraction call, no browser session, no provenance block and no change of
\* successful_extractions on its account; a run whose top-five results all lack
\* a url halts with zero successful extractions.
C16_UrllessResultSkipped == []UrllessRunHalts /\ [][UrllessSkipped]_vars

C16_Witness ==
    /\ RunEnded
    /\ outcome = "no_extractions"
    /\ AllUrlless
    /\ \E k \in SearchCalls : Len(calls[k].ret) >= TopN
    /\ calls = <<calls[1]>>

====
